---- MODULE Spec2Model ----
(***************************************************************************)
(* DeepKlarity quiz generator: the content-to-quiz generation pipeline     *)
(* (request flow, generation stages with retry, response validation,       *)
(* grounding heuristic, duplicate-question detection, persistence).        *)
(*                                                                         *)
(* Texts are sequences of character codes (ASCII): 32 is the space,        *)
(* 65..90 the upper-case letters, 97..122 the lower-case letters.          *)
(***************************************************************************)
EXTENDS Integers, Sequences, FiniteSets, TLC

VARIABLES
    run,        \* per request of POST /api/quiz/generate: its position and locals
    store,      \* the committed rows of the four tables
    nextId,     \* the AUTO_INCREMENT counter of quizzes.id
    scenario,   \* what the clients and the collaborators of this run may do
    dq,         \* one application of check_duplicate_questions, and a second
    gr,         \* one application of validate_question_grounding
    tc,         \* one application of truncate_content
    qd,         \* one question rendered by QuizDisplay
    qg,         \* the App with its QuizGenerator: state, and requests in flight
    qh,         \* the QuizHistory component: state, and requests in flight
    api         \* one call of a quizAPI function

vars == <<run, store, nextId, scenario, dq, gr, tc, qd, qg, qh, api>>
pipeVars == <<run, store, nextId, scenario>>
uiVars == <<qg, qh, api>>
pureVars == <<dq, gr, tc, qd, uiVars>>

\* ------------------------------------------------------------------------
\* Bounds of the model
\* ------------------------------------------------------------------------
NumReqs == 2
MaxListLen == 4
MaxTextLen == 4
MaxGroundLen == 3

\* ------------------------------------------------------------------------
\* Program constants
\* ------------------------------------------------------------------------
MaxAttempts == 3
NumOptions == 4
MinQuestions == 5
MaxQuestions == 10
MinWords == 500

Answers == {"A", "B", "C", "D"}
Difficulties == {"easy", "medium", "hard"}
quiz_fields == {"question", "options", "answer", "difficulty", "explanation"}

\* ------------------------------------------------------------------------
\* Sequences and strings
\* ------------------------------------------------------------------------

Range(s) == {s[i] : i \in 1..Len(s)}

\* all sequences over S whose length is in lo..hi
SeqsOf(S, lo, hi) == UNION {[1..k -> S] : k \in lo..hi}

\* list.pop(j) for a 1-based j inside the list
Pop(s, j) == SubSeq(s, 1, j - 1) \o SubSeq(s, j + 1, Len(s))

\* str.lower() on one character code
LowerChar(c) == IF c >= 65 /\ c <= 90 THEN c + 32 ELSE c

\* str.lower()
Lower(s) == [i \in 1..Len(s) |-> LowerChar(s[i])]

\* Python's `t in s` on strings
IsSubstring(t, s) ==
    \E i \in 0..Len(s) : i + Len(t) <= Len(s) /\ SubSeq(s, i + 1, i + Len(t)) = t

\* ------------------------------------------------------------------------
\* difflib.SequenceMatcher(None, a, b).ratio() > 0.8
\* (the strings of the model are far shorter than the 200 characters at
\* which difflib's automatic junk heuristic starts)
\* ------------------------------------------------------------------------
\* the common blocks a[i..i+k-1] = b[j..j+k-1]
CommonBlocks(a, b) ==
    {<<i, j, k>> \in (1..Len(a)) \X (1..Len(b)) \X (1..Len(a)) :
        /\ i + k - 1 <= Len(a)
        /\ j + k - 1 <= Len(b)
        /\ SubSeq(a, i, i + k - 1) = SubSeq(b, j, j + k - 1)}

\* find_longest_match: the longest block, of those the one starting
\* earliest in a, of those the one starting earliest in b
LongestMatch(a, b) ==
    LET blocks == CommonBlocks(a, b)
    IN  CHOOSE m \in blocks :
            \A o \in blocks :
                \/ m[3] > o[3]
                \/ m[3] = o[3] /\ m[1] < o[1]
                \/ m[3] = o[3] /\ m[1] = o[1] /\ m[2] <= o[2]

\* get_matching_blocks: the number of matched characters
RECURSIVE Matches(_, _)
Matches(a, b) ==
    IF a = <<>> \/ b = <<>> \/ Range(a) \cap Range(b) = {} THEN 0
    ELSE LET m == LongestMatch(a, b)
         IN  m[3]
             + Matches(SubSeq(a, 1, m[1] - 1), SubSeq(b, 1, m[2] - 1))
             + Matches(SubSeq(a, m[1] + m[3], Len(a)), SubSeq(b, m[2] + m[3], Len(b)))

\* ratio() = 2.0 * M / T, and 1.0 when both strings are empty;
\* 2M/T > 0.8 iff 5M > 2T
Similar(a, b) ==
    IF Len(a) + Len(b) = 0 THEN TRUE
    ELSE 5 * Matches(a, b) > 2 * (Len(a) + Len(b))

\* ------------------------------------------------------------------------
\* LLM response validation: post-processing pipeline
\* ------------------------------------------------------------------------
\* validate_quiz_json: TRUE when it returns True, FALSE when it raises
\* ValueError
QuestionValid(q) ==
    /\ quiz_fields \subseteq DOMAIN q
    /\ Len(q.options) = NumOptions
    /\ q.answer \in Answers
    /\ q.difficulty \in Difficulties

validate_quiz_json(response) ==
    /\ "quiz" \in DOMAIN response
    /\ \A i \in 1..Len(response.quiz) : QuestionValid(response.quiz[i])

\* extract_key_terms: the words of the text (maximal runs of characters
\* other than the space)
RECURSIVE SplitWords(_, _)
SplitWords(s, cur) ==
    IF s = <<>> THEN (IF cur = <<>> THEN <<>> ELSE <<cur>>)
    ELSE IF Head(s) = 32
         THEN (IF cur = <<>> THEN <<>> ELSE <<cur>>) \o SplitWords(Tail(s), <<>>)
         ELSE SplitWords(Tail(s), Append(cur, Head(s)))

extract_key_terms(text) == SplitWords(text, <<>>)

\* validate_question_grounding: raised is the ZeroDivisionError of
\* len(grounded_terms) / len(question_terms), warned the logged warning,
\* ret the value returned
validate_question_grounding(question, article_text) ==
    LET question_terms == extract_key_terms(question.question)
        grounded_terms == SelectSeq(question_terms,
                              LAMBDA term : IsSubstring(Lower(term), Lower(article_text)))
    IN  IF Len(question_terms) = 0
        THEN [raised |-> TRUE, warned |-> FALSE, ret |-> FALSE]
        ELSE [raised |-> FALSE,
              warned |-> 2 * Len(grounded_terms) < Len(question_terms),
              ret |-> TRUE]

\* check_duplicate_questions.  The outer loop iterates the live list; the
\* inner loop iterates a copy questions[i+1:] taken when it starts, numbered
\* from i+1, and pops index j of the live list.  Indices are 1-based here.
\* raised is the IndexError of questions.pop(j).
RECURSIVE DupInner(_, _, _, _)
DupInner(q1, snapshot, j, questions) ==
    IF j > Len(snapshot) THEN [raised |-> FALSE, questions |-> questions]
    ELSE IF Similar(q1.question, snapshot[j].question)
         THEN IF j > Len(questions)
              THEN [raised |-> TRUE, questions |-> questions]
              ELSE DupInner(q1, snapshot, j + 1, Pop(questions, j))
         ELSE DupInner(q1, snapshot, j + 1, questions)

RECURSIVE DupOuter(_, _)
DupOuter(i, questions) ==
    IF i > Len(questions) THEN [raised |-> FALSE, questions |-> questions]
    ELSE LET r == DupInner(questions[i], questions, i + 1, questions)
         IN  IF r.raised THEN r ELSE DupOuter(i + 1, r.questions)

check_duplicate_questions(questions) == DupOuter(1, questions)

\* ------------------------------------------------------------------------
\* The validators applied to bounded inputs
\* ------------------------------------------------------------------------
\* a question as the LLM returns it; id is the position the question had in
\* the list handed to check_duplicate_questions (not a field of the program)
Question(id, text) ==
    [id |-> id, question |-> text, options |-> <<<<97>>, <<98>>, <<99>>, <<100>>>>,
     answer |-> "A", difficulty |-> "easy", explanation |-> <<101>>]

DedupTexts ==
    {t \in SeqsOf({97, 98}, MaxTextLen - 1, MaxTextLen) : t[1] = 97 /\ t[2] = 97}
DedupInputs ==
    {[i \in 1..Len(l) |-> Question(i, l[i])] : l \in SeqsOf(DedupTexts, 0, MaxListLen)}

GroundTexts == SeqsOf({32, 65, 97, 98}, 0, MaxGroundLen)

NoResult == [raised |-> FALSE, questions |-> <<>>]
DqIdle == [phase |-> "idle", questions |-> <<>>, once |-> NoResult, twice |-> NoResult]
GrIdle == [phase |-> "idle", question |-> Question(1, <<>>), article_text |-> <<>>,
           after |-> Question(1, <<>>),
           result |-> [raised |-> FALSE, warned |-> FALSE, ret |-> FALSE]]

\* check_duplicate_questions(questions)
Suppress ==
    /\ dq.phase = "input"
    /\ dq' = [dq EXCEPT !.phase = "once",
                        !.once = check_duplicate_questions(dq.questions)]
    /\ UNCHANGED <<pipeVars, gr, tc, qd, uiVars>>

\* check_duplicate_questions applied to the list it returned
SuppressAgain ==
    /\ dq.phase = "once"
    /\ ~dq.once.raised
    /\ dq' = [dq EXCEPT !.phase = "twice",
                        !.twice = check_duplicate_questions(dq.once.questions)]
    /\ UNCHANGED <<pipeVars, gr, tc, qd, uiVars>>

\* validate_question_grounding(question, article_text)
Ground ==
    /\ gr.phase = "input"
    /\ gr' = [gr EXCEPT !.phase = "done",
                        !.after = gr.question,
                        !.result = validate_question_grounding(gr.question, gr.article_text)]
    /\ UNCHANGED <<pipeVars, dq, tc, qd, uiVars>>

\* ------------------------------------------------------------------------
\* POST /api/quiz/generate: requests, collaborators and the store
\* ------------------------------------------------------------------------
Reqs == 1..NumReqs
Stages == {"entities", "quiz", "topics"}
Prompts == Stages \cup {"summary"}
SavePcs == {"save", "batch", "commit"}

\* a URL: scheme, host, path, and whether it ends with a slash
GoodUrls ==
    {[scheme |-> "https", host |-> "example.com", path |-> 1, slash |-> sl] :
        sl \in BOOLEAN}
UrlPool ==
    GoodUrls \cup {[scheme |-> "ftp", host |-> "example.com", path |-> 1, slash |-> FALSE],
                   [scheme |-> "https", host |-> "localhost", path |-> 1, slash |-> FALSE]}

blocked_hosts == {"localhost", "127.0.0.1", "0.0.0.0", "metadata.google.internal"}

\* validate_url: TRUE when it returns True, FALSE when it raises ValueError
validate_url(url) ==
    /\ url.scheme \in {"http", "https"}
    /\ url.host \notin blocked_hosts

\* the normalized URL: scheme + host + path, trailing slash normalized
NormalizedUrl(url) == [url EXCEPT !.slash = FALSE]

\* check_duplicate_url: the ids of the stored quizzes with this URL
check_duplicate_url(url) == {row.id : row \in {q \in store.quizzes : q.url = url}}

\* scrape_url returns an article with one of these word counts, or fails
WordCounts == {250, 299, 300, 500, 501}
ArticleText == <<97, 97, 98, 32, 97, 98, 97>>

\* the question texts of a well-formed response: pairwise dissimilar
GoodText(i) == <<97 + ((i \div 9) % 3), 97 + ((i \div 3) % 3), 97 + (i % 3)>>
Good(k) == [i \in 1..k |-> Question(i, GoodText(i))]

\* questions the LLM may return in place of a good one
ThreeOptions(i) == [Question(i, GoodText(i)) EXCEPT !.options = <<<<97>>, <<98>>, <<99>>>>]
BadAnswer(i) == [Question(i, GoodText(i)) EXCEPT !.answer = "E"]
BadDifficulty(i) == [Question(i, GoodText(i)) EXCEPT !.difficulty = "trivial"]
MissingField(i) == [f \in {"id", "question", "options", "answer", "difficulty"} |->
                        Question(i, GoodText(i))[f]]
DupOptions(i) == [Question(i, GoodText(i)) EXCEPT !.options = <<<<97>>, <<97>>, <<99>>, <<100>>>>]
EmptyOption(i) == [Question(i, GoodText(i)) EXCEPT !.options = <<<<>>, <<98>>, <<99>>, <<100>>>>]
EmptyText(i) == Question(i, <<>>)
NearCopy(i) == Question(i, Append(GoodText(1), 97))

\* the raw responses of the LLM to the quiz prompt for n questions
Malformed == [json |-> FALSE, data |-> [text |-> 0]]
Json(d) == [json |-> TRUE, data |-> d]
QuizLists(n) ==
    {Good(0), Good(n), Good(n + 1)}
    \cup {Append(Good(n - 1), q) :
            q \in {ThreeOptions(n), BadAnswer(n), BadDifficulty(n), MissingField(n),
                   DupOptions(n), EmptyOption(n), EmptyText(n), NearCopy(n)}}
    \cup {<<Question(1, <<97, 97, 97, 98>>), Question(2, <<97, 97, 97>>),
            Question(3, <<97, 97, 98>>)>>}
QuizResponses(n) ==
    {Malformed, Json([summary |-> <<>>])} \cup {Json([quiz |-> l]) : l \in QuizLists(n)}

\* the raw responses of the LLM to the entity and the related-topics prompts
ExtractedEntities == <<[entity_type |-> "people", entity_name |-> 1]>>
SuggestedTopics == <<[topic_name |-> 1]>>
WellFormed(stage, n) ==
    CASE stage = "quiz" -> Json([quiz |-> Good(n)])
      [] stage = "entities" -> Json([entities |-> ExtractedEntities])
      [] stage = "topics" -> Json([topics |-> SuggestedTopics])
Responses(stage, n) ==
    IF scenario.llm = "reliable" THEN {WellFormed(stage, n)}
    ELSE IF stage = "quiz" THEN QuizResponses(n)
    ELSE {Malformed, WellFormed(stage, n)}

\* the questions of the response are not validated
Accepts_unchecked(stage, raw) ==
    /\ raw.json
    /\ stage = "quiz" => "quiz" \in DOMAIN raw.data

\* chain.invoke + validation: does this attempt return, or raise?
Accepts(stage, raw) ==
    /\ raw.json
    /\ stage = "quiz" => validate_quiz_json(raw.data)

\* the last attempt taken to be the one after range(3) ends
IsLastAttempt_off_by_one(attempt) == attempt = 3

\* for attempt in range(3): ... except: if attempt == 2: raise
IsLastAttempt(attempt) == attempt = 2

\* the flow with the exception of generate_quiz caught and ignored
StepAfter_swallow(step, raised) ==
    IF raised /\ step # "quiz" THEN "done"
    ELSE CASE step = "validate" -> "check_duplicate"
           [] step = "check_duplicate" -> "scrape"
           [] step = "scrape" -> "min_words"
           [] step = "min_words" -> "entities"
           [] step = "entities" -> "quiz"
           [] step = "quiz" -> "topics"
           [] step = "topics" -> "save"
           [] step = "save" -> "batch"
           [] step = "batch" -> "commit"
           [] step = "commit" -> "done"

\* the related-topics stage placed before the entity stage
StepAfter_topics_first(step, raised) ==
    IF raised THEN "done"
    ELSE CASE step = "validate" -> "check_duplicate"
           [] step = "check_duplicate" -> "scrape"
           [] step = "scrape" -> "min_words"
           [] step = "min_words" -> "topics"
           [] step = "topics" -> "entities"
           [] step = "entities" -> "quiz"
           [] step = "quiz" -> "save"
           [] step = "save" -> "batch"
           [] step = "batch" -> "commit"
           [] step = "commit" -> "done"

\* a failed scrape starts the request over
StepAfter_start_over(step, raised) ==
    IF raised THEN IF step = "scrape" THEN "validate" ELSE "done"
    ELSE CASE step = "validate" -> "check_duplicate"
           [] step = "check_duplicate" -> "scrape"
           [] step = "scrape" -> "min_words"
           [] step = "min_words" -> "entities"
           [] step = "entities" -> "quiz"
           [] step = "quiz" -> "topics"
           [] step = "topics" -> "save"
           [] step = "save" -> "batch"
           [] step = "batch" -> "commit"
           [] step = "commit" -> "done"

\* the step of the process flow after `step`; an exception leaves the handler
StepAfter(step, raised) ==
    IF raised THEN "done"
    ELSE CASE step = "validate" -> "check_duplicate"
           [] step = "check_duplicate" -> "scrape"
           [] step = "scrape" -> "min_words"
           [] step = "min_words" -> "entities"
           [] step = "entities" -> "quiz"
           [] step = "quiz" -> "topics"
           [] step = "topics" -> "save"
           [] step = "save" -> "batch"
           [] step = "batch" -> "commit"
           [] step = "commit" -> "done"

EmptyRows == [quizzes |-> {}, key_entities |-> {}, questions |-> {}, related_topics |-> {}]
NoUrl == [scheme |-> "", host |-> "", path |-> 0, slash |-> FALSE]
NoInput == [stage |-> "", url |-> NoUrl, n |-> 0]
NoResp == [kind |-> "none", code |-> "", stage |-> "", id |-> 0,
           entities |-> <<>>, questions |-> <<>>, topics |-> <<>>]
RunIdle ==
    [pc |-> "idle", url |-> NoUrl, n |-> 0, word_count |-> 0, attempt |-> 0,
     calls |-> [st \in Prompts |-> 0], outcome |-> [st \in Prompts |-> "pending"],
     stage_raw |-> [st \in Stages |-> Malformed], llm_in |-> NoInput,
     entities |-> <<>>, result |-> Malformed.data, questions |-> <<>>, topics |-> <<>>,
     tx |-> EmptyRows, quiz_id |-> 0, resp |-> NoResp]

ErrorResp(code, stage) == [NoResp EXCEPT !.kind = "error", !.code = code, !.stage = stage]

\* the rows of one bundle
QuizRow(id, url) == [id |-> id, url |-> url]
EntityRows(id, entities) ==
    {[quiz_id |-> id, pos |-> i, entity |-> entities[i]] : i \in 1..Len(entities)}
QuestionRows(id, questions) ==
    {[quiz_id |-> id, pos |-> i, question |-> questions[i]] : i \in 1..Len(questions)}
TopicRows(id, topics) ==
    {[quiz_id |-> id, pos |-> i, topic |-> topics[i]] : i \in 1..Len(topics)}

\* get_quiz_by_id: the bundle read back from the committed rows, in row order
RowsOf(table, id) == {row \in table : row.quiz_id = id}
ReadList(table, id, field) ==
    [i \in 1..Cardinality(RowsOf(table, id)) |->
        (CHOOSE row \in RowsOf(table, id) : row.pos = i)[field]]
get_quiz_by_id(id) ==
    [NoResp EXCEPT !.kind = "quiz", !.id = id,
                   !.entities = ReadList(store.key_entities, id, "entity"),
                   !.questions = ReadList(store.questions, id, "question"),
                   !.topics = ReadList(store.related_topics, id, "topic")]

\* Post-processing pipeline on the questions generate_quiz returned:
\* grounding check of every question, then duplicate detection
PostProcess(questions) ==
    IF \E i \in 1..Len(questions) :
           validate_question_grounding(questions[i], ArticleText).raised
    THEN [raised |-> TRUE, questions |-> questions]
    ELSE check_duplicate_questions(questions)

\* an INSERT outside any transaction: the rows are visible at once
Insert_autocommit(committed, tx, table, rows) ==
    [committed |-> [committed EXCEPT ![table] = @ \cup rows], tx |-> tx]

\* an INSERT inside the transaction: the rows are pending until the commit
Insert(committed, tx, table, rows) ==
    [committed |-> committed, tx |-> [tx EXCEPT ![table] = @ \cup rows]]

\* COMMIT: the pending rows become visible
CommitRows(committed, tx) == [t \in DOMAIN committed |-> committed[t] \cup tx[t]]

\* ------------------------------------------------------------------------
\* The process flow of POST /api/quiz/generate, one action per step
\* ------------------------------------------------------------------------
\* a client posts {url, num_questions}
Generate(r) ==
    /\ run[r].pc = "idle"
    /\ r \in scenario.clients
    /\ \E url \in scenario.urls, n \in scenario.counts :
           run' = [run EXCEPT ![r] = [@ EXCEPT !.pc = "validate", !.url = url, !.n = n]]
    /\ UNCHANGED <<store, nextId, scenario, pureVars>>

\* 1. Validate URL format
ValidateUrl(r) ==
    /\ run[r].pc = "validate"
    /\ run' = [run EXCEPT ![r] =
                 IF validate_url(@.url)
                 THEN [@ EXCEPT !.pc = StepAfter("validate", FALSE)]
                 ELSE [@ EXCEPT !.pc = StepAfter("validate", TRUE),
                                !.resp = ErrorResp("INVALID_URL", "")]]
    /\ UNCHANGED <<store, nextId, scenario, pureVars>>

\* 2. Check for duplicate in database, and return the cached quiz
CheckDuplicate(r) ==
    /\ run[r].pc = "check_duplicate"
    /\ LET ids == check_duplicate_url(run[r].url)
       IN  run' = [run EXCEPT ![r] =
                     IF ids = {}
                     THEN [@ EXCEPT !.pc = StepAfter("check_duplicate", FALSE)]
                     ELSE [@ EXCEPT !.pc = "done",
                                    !.resp = get_quiz_by_id(
                                        CHOOSE id \in ids : \A o \in ids : id <= o)]]
    /\ UNCHANGED <<store, nextId, scenario, pureVars>>

\* 3. Call scrape_url()
Scrape(r) ==
    /\ run[r].pc = "scrape"
    /\ \/ run' = [run EXCEPT ![r] = [@ EXCEPT !.pc = StepAfter("scrape", TRUE),
                                             !.resp = ErrorResp("SCRAPING_FAILED", "")]]
       \/ \E wc \in scenario.words :
              run' = [run EXCEPT ![r] = [@ EXCEPT !.pc = StepAfter("scrape", FALSE),
                                                  !.word_count = wc]]
    /\ UNCHANGED <<store, nextId, scenario, pureVars>>

\* an article of any length passes
meets_minimum_any(word_count) == word_count >= 0

\* content meets minimum requirements (>500 words)
meets_minimum(word_count) == word_count > MinWords

\* 4. Check if content meets minimum requirements (>500 words)
CheckMinWords(r) ==
    /\ run[r].pc = "min_words"
    /\ run' = [run EXCEPT ![r] =
                 IF meets_minimum(@.word_count)
                 THEN [@ EXCEPT !.pc = StepAfter("min_words", FALSE)]
                 ELSE [@ EXCEPT !.pc = StepAfter("min_words", TRUE),
                                !.resp = ErrorResp("CONTENT_TOO_SHORT", "")]]
    /\ UNCHANGED <<store, nextId, scenario, pureVars>>

\* the value a stage hands to the flow when its attempt is accepted
Returned(me, stage, raw) ==
    CASE stage = "entities" -> [me EXCEPT !.entities = raw.data.entities]
      [] stage = "topics" -> [me EXCEPT !.topics = raw.data.topics]
      [] stage = "quiz" -> [me EXCEPT !.result = raw.data]

\* 5.-7. one attempt of extract_entities / generate_quiz /
\* generate_related_topics: one call of the LLM, parsing and validation,
\* and after generate_quiz the post-processing of its questions
CallLLM(r) ==
    /\ run[r].pc \in Stages
    /\ \E raw \in Responses(run[r].pc, run[r].n) :
         LET me == run[r]
             stage == me.pc
             called == [me EXCEPT !.calls[stage] = @ + 1,
                                  !.stage_raw[stage] = raw,
                                  !.llm_in = [stage |-> stage, url |-> me.url, n |-> me.n]]
             post == IF stage = "quiz" /\ Accepts(stage, raw)
                     THEN PostProcess(raw.data.quiz)
                     ELSE [raised |-> FALSE, questions |-> <<>>]
             abort == StepAfter(stage, TRUE)
         IN  run' = [run EXCEPT ![r] =
               IF Accepts(stage, raw)
               THEN IF post.raised
                    THEN [Returned(called, stage, raw) EXCEPT
                             !.outcome[stage] = "returned",
                             !.attempt = 0,
                             !.pc = "done",
                             !.resp = ErrorResp("INTERNAL_ERROR", "")]
                    ELSE [Returned(called, stage, raw) EXCEPT
                             !.outcome[stage] = "returned",
                             !.attempt = 0,
                             !.questions = IF stage = "quiz" THEN post.questions ELSE @,
                             !.pc = StepAfter(stage, FALSE)]
               ELSE IF IsLastAttempt(me.attempt)
                    THEN [called EXCEPT
                             !.outcome[stage] = "raised",
                             !.attempt = 0,
                             !.pc = abort,
                             !.resp = IF abort = "done"
                                      THEN ErrorResp("LLM_GENERATION_FAILED", stage)
                                      ELSE @]
               ELSE IF me.attempt + 1 < MaxAttempts
                    THEN [called EXCEPT !.attempt = @ + 1]
                    \* range(3) is exhausted: the function returns None
                    ELSE [called EXCEPT
                             !.outcome[stage] = "returned",
                             !.attempt = 0,
                             !.pc = StepAfter(stage, FALSE)]]
    /\ UNCHANGED <<store, nextId, scenario, pureVars>>

\* 8. save_quiz_to_db: create transaction, insert into quizzes, get quiz_id
InsertQuiz(r) ==
    /\ run[r].pc = "save"
    /\ LET w == Insert(store, EmptyRows, "quizzes", {QuizRow(nextId, run[r].url)})
       IN  /\ store' = w.committed
           /\ run' = [run EXCEPT ![r] = [@ EXCEPT !.pc = StepAfter("save", FALSE),
                                                  !.quiz_id = nextId,
                                                  !.tx = w.tx]]
    /\ nextId' = nextId + 1
    /\ UNCHANGED <<scenario, pureVars>>

\* batch insert: key_entities, questions, related_topics
BatchInsert(r) ==
    /\ run[r].pc = "batch"
    /\ LET id == run[r].quiz_id
           w1 == Insert(store, run[r].tx, "key_entities", EntityRows(id, run[r].entities))
           w2 == Insert(w1.committed, w1.tx, "questions", QuestionRows(id, run[r].questions))
           w3 == Insert(w2.committed, w2.tx, "related_topics", TopicRows(id, run[r].topics))
       IN  /\ store' = w3.committed
           /\ run' = [run EXCEPT ![r] = [@ EXCEPT !.pc = StepAfter("batch", FALSE),
                                                  !.tx = w3.tx]]
    /\ UNCHANGED <<nextId, scenario, pureVars>>

\* commit, and 9. return the complete quiz object with its id
Commit(r) ==
    /\ run[r].pc = "commit"
    /\ store' = CommitRows(store, run[r].tx)
    /\ run' = [run EXCEPT ![r] =
                 [@ EXCEPT !.pc = StepAfter("commit", FALSE),
                           !.tx = EmptyRows,
                           !.resp = [NoResp EXCEPT !.kind = "quiz", !.id = run[r].quiz_id,
                                                   !.entities = run[r].entities,
                                                   !.questions = run[r].questions,
                                                   !.topics = run[r].topics]]]
    /\ UNCHANGED <<nextId, scenario, pureVars>>

\* rollback on error: a statement of the transaction fails
Rollback(r) ==
    /\ run[r].pc \in SavePcs
    /\ run' = [run EXCEPT ![r] = [@ EXCEPT !.pc = "done",
                                          !.tx = EmptyRows,
                                          !.resp = ErrorResp("DB_CONNECTION_ERROR", "")]]
    /\ UNCHANGED <<store, nextId, scenario, pureVars>>

\* ------------------------------------------------------------------------
\* truncate_content: the article as the token counts of its parts
\* ------------------------------------------------------------------------
MaxTokens == 2
MaxBudget == 4

\* the parts smart truncation keeps, in priority order, and the part it removes
KeepOrder == <<"title", "intro", "heading", "first", "final">>
Parts == Range(KeepOrder) \cup {"rest"}
Articles == [Parts -> 0..MaxTokens]
Budgets == 0..MaxBudget

RECURSIVE TokensOf(_, _)
TokensOf(text, parts) ==
    IF parts = {} THEN 0
    ELSE LET k == CHOOSE x \in parts : TRUE
         IN  text[k] + TokensOf(text, parts \ {k})
Tokens(text) == TokensOf(text, DOMAIN text)

\* the kept parts from priority i on, with `left` tokens of the budget left
RECURSIVE Preserve(_, _, _)
Preserve(article, i, left) ==
    IF i > Len(KeepOrder) THEN {}
    ELSE LET k == KeepOrder[i]
         IN  IF article[k] <= left
             THEN {k} \cup Preserve(article, i + 1, left - article[k])
             ELSE Preserve(article, i + 1, left)

\* every preserved part is kept, whatever the budget
truncate_content_keep_all(article, budget) ==
    IF Tokens(article) <= budget THEN article
    ELSE [k \in Parts |-> IF k = "rest" THEN 0 ELSE article[k]]

\* an article within the budget is left alone; of a longer one the preserved
\* parts are kept in priority order as long as they fit
truncate_content(article, budget) ==
    IF Tokens(article) <= budget THEN article
    ELSE LET kept == Preserve(article, 1, budget)
         IN  [k \in Parts |-> IF k \in kept THEN article[k] ELSE 0]

TcIdle == [phase |-> "idle", article |-> [k \in Parts |-> 0], budget |-> 0,
           out |-> [k \in Parts |-> 0]]

Truncate ==
    /\ tc.phase = "input"
    /\ tc' = [tc EXCEPT !.phase = "done",
                        !.out = truncate_content(tc.article, tc.budget)]
    /\ UNCHANGED <<pipeVars, dq, gr, qd, uiVars>>

\* ------------------------------------------------------------------------
\* QuizDisplay: the options of one question
\* ------------------------------------------------------------------------
\* option texts a question may carry; the answer is one of the letters A..D
OptionTexts == {<<65>>, <<66>>, <<112>>, <<113>>}
AnswerTexts == {<<64 + i>> : i \in 1..NumOptions}
DisplayQuestions == [options : [1..NumOptions -> OptionTexts], answer : AnswerTexts]

\* String.fromCharCode(65 + optIdx), optIdx counted from 0
Letter(optIdx) == <<65 + optIdx>>

\* const isCorrect = option === correctAnswerText
isCorrect(option, correctAnswerText) == option = correctAnswerText

\* optionList.map((option, optIdx) => ...): one row per option
OptionRows(question) ==
    LET optionList == question.options
        correctAnswerText == question.answer
    IN  [i \in 1..Len(optionList) |->
            [letter |-> Letter(i - 1), option |-> optionList[i],
             isCorrect |-> isCorrect(optionList[i], correctAnswerText)]]

QdIdle == [phase |-> "idle", question |-> [options |-> <<>>, answer |-> <<>>],
           rows |-> <<>>]

Render ==
    /\ qd.phase = "input"
    /\ qd' = [qd EXCEPT !.phase = "rendered", !.rows = OptionRows(qd.question)]
    /\ UNCHANGED <<pipeVars, dq, gr, tc, uiVars>>

\* ------------------------------------------------------------------------
\* quizAPI: one call of generateQuiz, getQuizHistory, getQuizById, deleteQuiz
\* ------------------------------------------------------------------------
MaxQuizId == 2
MaxPage == 3
limit == 20

\* the texts of the search bar
SearchTexts == SeqsOf({104}, 0, 1)

\* the value of error.response.data.error: an object with a message, a
\* non-empty string (truthy, no message), an empty string or null (falsy);
\* NoPayload is undefined
Payloads ==
    {[truthy |-> TRUE, message |-> "Invalid URL format"],
     [truthy |-> TRUE, message |-> ""],
     [truthy |-> FALSE, message |-> ""]}
NoPayload == [truthy |-> FALSE, message |-> "undefined"]

\* what axios rejects with: no response (network error), a response without
\* a body, a body without an error field, a body with one
AxiosErrors ==
    {[response |-> FALSE, data |-> FALSE, error |-> NoPayload, message |-> "Network Error"],
     [response |-> TRUE, data |-> FALSE, error |-> NoPayload, message |-> "Request failed"]}
    \cup {[response |-> TRUE, data |-> TRUE, error |-> e, message |-> "Request failed"] :
            e \in Payloads \cup {NoPayload}}
NoAxiosError == [response |-> FALSE, data |-> FALSE, error |-> NoPayload, message |-> ""]
AxiosOutcomes ==
    {[ok |-> TRUE, data |-> b, error |-> NoAxiosError] : b \in {"body 1", "body 2"}}
    \cup {[ok |-> FALSE, data |-> "", error |-> e] : e \in AxiosErrors}

\* the calls the components make
NoArgs == [url |-> <<>>, numQuestions |-> 0, page |-> 0, limit |-> 0, search |-> <<>>,
           quizId |-> 0]
ApiCalls ==
    {[fn |-> "generateQuiz", args |-> [NoArgs EXCEPT !.url = u, !.numQuestions = n]] :
        u \in {<<104>>, <<104, 104>>}, n \in MinQuestions..MaxQuestions}
    \cup {[fn |-> "getQuizHistory",
           args |-> [NoArgs EXCEPT !.page = pg, !.limit = limit, !.search = t]] :
            pg \in 1..MaxPage, t \in SearchTexts}
    \cup {[fn |-> f, args |-> [NoArgs EXCEPT !.quizId = i]] :
            f \in {"getQuizById", "deleteQuiz"}, i \in 1..MaxQuizId}

\* the request a function hands to axios
NoRequest == [method |-> "", path |-> "", quizId |-> 0, url |-> <<>>, num_questions |-> 0,
              page |-> 0, limit |-> 0, has_search |-> FALSE, search |-> <<>>]
Request(fn, args) ==
    CASE fn = "generateQuiz" ->
           [NoRequest EXCEPT !.method = "post", !.path = "/quiz/generate",
                             !.url = args.url, !.num_questions = args.numQuestions]
      [] fn = "getQuizHistory" ->
           [NoRequest EXCEPT !.method = "get", !.path = "/quiz/history",
                             !.page = args.page, !.limit = args.limit,
                             !.has_search = (args.search # <<>>),
                             !.search = IF args.search # <<>> THEN args.search ELSE <<>>]
      [] fn = "getQuizById" ->
           [NoRequest EXCEPT !.method = "get", !.path = "/quiz/", !.quizId = args.quizId]
      [] fn = "deleteQuiz" ->
           [NoRequest EXCEPT !.method = "delete", !.path = "/quiz/", !.quizId = args.quizId]

\* error.response?.data?.error
ErrorField(error) == IF error.response /\ error.data THEN error.error ELSE NoPayload

NoResult_api == [kind |-> "none", data |-> "", payload |-> NoPayload, error |-> NoAxiosError]

\* the catch block returns the payload of the response
Caught_resolves(error) ==
    IF ErrorField(error).truthy
    THEN [NoResult_api EXCEPT !.kind = "returned", !.payload = ErrorField(error)]
    ELSE [NoResult_api EXCEPT !.kind = "thrown", !.error = error]

\* catch (error) { throw error.response?.data?.error || error; }
Caught(error) ==
    IF ErrorField(error).truthy
    THEN [NoResult_api EXCEPT !.kind = "thrown", !.payload = ErrorField(error)]
    ELSE [NoResult_api EXCEPT !.kind = "thrown", !.error = error]

\* try { const response = await ...; return response.data; } catch ...
Settled(outcome) ==
    IF outcome.ok
    THEN [NoResult_api EXCEPT !.kind = "returned", !.data = outcome.data]
    ELSE Caught(outcome.error)

ApiIdle == [phase |-> "idle", call |-> [fn |-> "", args |-> NoArgs],
            outcome |-> [ok |-> FALSE, data |-> "", error |-> NoAxiosError],
            request |-> NoRequest, result |-> NoResult_api]

CallApi ==
    /\ api.phase = "input"
    /\ api' = [api EXCEPT !.phase = "settled",
                          !.request = Request(api.call.fn, api.call.args),
                          !.result = Settled(api.outcome)]
    /\ UNCHANGED <<pipeVars, dq, gr, tc, qd, qg, qh>>

\* ------------------------------------------------------------------------
\* App and QuizGenerator: the form, its requests, the displayed quiz
\* ------------------------------------------------------------------------
MaxSubmits == 2
DefaultQuestions == 8

\* String.prototype.trim, the space being the only whitespace of the texts
RECURSIVE TrimStart(_)
TrimStart(s) == IF s # <<>> /\ Head(s) = 32 THEN TrimStart(Tail(s)) ELSE s
RECURSIVE TrimEnd(_)
TrimEnd(s) ==
    IF s # <<>> /\ s[Len(s)] = 32 THEN TrimEnd(SubSeq(s, 1, Len(s) - 1)) ELSE s

\* the url is taken as typed
trim_nothing(s) == s

trim(s) == TrimEnd(TrimStart(s))

\* the value attribute of the range input: the decimal digits of the number
RECURSIVE ToDigits(_)
ToDigits(n) ==
    IF n < 10 THEN <<48 + n>> ELSE Append(ToDigits(n \div 10), 48 + (n % 10))
SliderValues == {ToDigits(n) : n \in MinQuestions..MaxQuestions}

\* only the first digit of the value is read
parseInt_first_digit(value) == Head(value) - 48

\* parseInt(e.target.value): the leading decimal digits
RECURSIVE ParseDigits(_, _)
ParseDigits(s, acc) ==
    IF s = <<>> \/ Head(s) \notin 48..57 THEN acc
    ELSE ParseDigits(Tail(s), acc * 10 + (Head(s) - 48))
parseInt(value) == ParseDigits(value, 0)

\* what the user may type into the url input: nothing, a space, a letter
UrlTexts == {<<>>, <<32>>, <<104>>}
\* what quizAPI.generateQuiz throws: a value with or without a message
ThrownErrors == {[message |-> ""], [message |-> "Invalid URL format"]}
\* err.message || fallback
MessageOr(err, fallback) == IF err.message # "" THEN err.message ELSE fallback

NoQuiz == [source |-> "none", of |-> 0]
GeneratedQuiz(req) == [source |-> "generated", of |-> req.id]

\* useState('generator'), useState(null); useState(''), useState(8),
\* useState(false), useState(null)
QgIdle ==
    [activeTab |-> "generator", currentQuiz |-> NoQuiz,
     url |-> <<>>, numQuestions |-> DefaultQuestions, loading |-> FALSE, error |-> "null",
     inflight |-> {}, sent |-> 0]

\* the state of a QuizGenerator that has just been mounted
Mounted(q) ==
    [q EXCEPT !.url = QgIdle.url, !.numQuestions = QgIdle.numQuestions,
              !.loading = QgIdle.loading, !.error = QgIdle.error]

\* onChange of the url input, disabled={loading}
SetUrl ==
    /\ qg.activeTab = "generator"
    /\ ~qg.loading
    /\ \E value \in UrlTexts : qg' = [qg EXCEPT !.url = value]
    /\ UNCHANGED <<pipeVars, dq, gr, tc, qd, qh, api>>

\* onChange of the range input, min 5, max 10, disabled={loading}
SetNumQuestions ==
    /\ qg.activeTab = "generator"
    /\ ~qg.loading
    /\ \E value \in SliderValues : qg' = [qg EXCEPT !.numQuestions = parseInt(value)]
    /\ UNCHANGED <<pipeVars, dq, gr, tc, qd, qh, api>>

\* quizAPI.generateQuiz(url, numQuestions), as handed to axios
GenerateRequest(q) ==
    LET request == Request("generateQuiz",
                           [NoArgs EXCEPT !.url = q.url, !.numQuestions = q.numQuestions])
    IN  [id |-> q.sent + 1, url |-> request.url, num_questions |-> request.num_questions,
         orphan |-> FALSE]

\* handleSubmit up to its await; the submit button is disabled={loading}
handleSubmit ==
    /\ qg.activeTab = "generator"
    /\ ~qg.loading
    /\ IF trim(qg.url) = <<>>
       THEN qg' = [qg EXCEPT !.error = "Please enter a URL"]
       ELSE /\ qg.sent < MaxSubmits
            /\ qg' = [qg EXCEPT
                        !.loading = TRUE,
                        !.error = "null",
                        !.sent = @ + 1,
                        !.inflight = @ \cup {GenerateRequest(qg)}]
    /\ UNCHANGED <<pipeVars, dq, gr, tc, qd, qh, api>>

\* the request resolves: onQuizGenerated(quiz), setUrl(''), finally
\* setLoading(false); the setters of an unmounted component change nothing
GenerateResolved(req) ==
    /\ req \in qg.inflight
    /\ qg' = [(IF req.orphan THEN qg ELSE [qg EXCEPT !.url = <<>>, !.loading = FALSE])
                EXCEPT !.currentQuiz = GeneratedQuiz(req),
                       !.inflight = @ \ {req}]
    /\ UNCHANGED <<pipeVars, dq, gr, tc, qd, qh, api>>

\* the request rejects: setError(err.message || ...), finally setLoading(false)
GenerateRejected(req) ==
    /\ req \in qg.inflight
    /\ \E err \in ThrownErrors :
         qg' = [(IF req.orphan THEN qg
                 ELSE [qg EXCEPT
                         !.error = MessageOr(err, "Failed to generate quiz. Please try again."),
                         !.loading = FALSE])
                  EXCEPT !.inflight = @ \ {req}]
    /\ UNCHANGED <<pipeVars, dq, gr, tc, qd, qh, api>>

\* onClick of a tab: the QuizGenerator is rendered on the generator tab only,
\* so it is unmounted with its state and mounted afresh
SetActiveTab(tab) ==
    /\ tab # qg.activeTab
    /\ qg' = [Mounted(qg) EXCEPT
                !.activeTab = tab,
                !.inflight = {[req EXCEPT !.orphan = TRUE] : req \in @}]
    /\ UNCHANGED <<pipeVars, dq, gr, tc, qd, qh, api>>

\* handleSelectQuiz, called by the history tab with a stored quiz
handleSelectQuiz ==
    /\ qg.activeTab = "history"
    /\ qg' = [qg EXCEPT !.currentQuiz = [source |-> "history", of |-> 0],
                        !.activeTab = "generator"]
    /\ UNCHANGED <<pipeVars, dq, gr, tc, qd, qh, api>>

\* ------------------------------------------------------------------------
\* QuizHistory: page, search, and the history requests in flight
\* ------------------------------------------------------------------------
MaxFetches == 3

Min(a, b) == IF a <= b THEN a ELSE b
Max(a, b) == IF a >= b THEN a ELSE b
\* Math.ceil(total / limit)
totalPages == (qh.total + limit - 1) \div limit

\* the totals the server may report
Totals == {0, limit, limit + 1, 2 * limit + 1}

\* data of GET /quiz/history for one request: the rows of its page, and total
HistoryData(req, count) ==
    [quizzes |-> [page |-> req.page, search |-> req.search,
                  length |-> Max(0, Min(limit, count - (req.page - 1) * limit))],
     total |-> count]

\* useState([]), useState(0), useState(1), useState(''), useState(false),
\* useState(null)
QhIdle ==
    [mounted |-> FALSE, quizzes |-> [page |-> 0, search |-> <<>>, length |-> 0],
     total |-> 0, page |-> 1, search |-> <<>>,
     loading |-> FALSE, error |-> "null", pending |-> {}, fetches |-> 0]

\* fetchQuizzes up to its await, for the page and search of this render
fetchQuizzes(q) ==
    [q EXCEPT !.loading = TRUE,
              !.error = "null",
              !.fetches = @ + 1,
              !.pending = @ \cup {[id |-> q.fetches + 1, page |-> q.page,
                                   search |-> q.search]}]

\* the Previous and Next buttons are rendered
PaginationShown == ~qh.loading /\ qh.quizzes.length # 0 /\ totalPages > 1

\* the first render, and the effect that follows it
MountHistory ==
    /\ ~qh.mounted
    /\ qh' = fetchQuizzes([qh EXCEPT !.mounted = TRUE])
    /\ UNCHANGED <<pipeVars, dq, gr, tc, qd, qg, api>>

\* handleSearchChange, and the effect of [page, search]
handleSearchChange ==
    /\ qh.mounted
    /\ qh.fetches < MaxFetches
    /\ \E value \in SearchTexts \ {qh.search} :
         qh' = fetchQuizzes([qh EXCEPT !.search = value, !.page = 1])
    /\ UNCHANGED <<pipeVars, dq, gr, tc, qd, qg, api>>

\* Previous: setPage(p => Math.max(1, p - 1)), disabled={page === 1}
Previous ==
    /\ qh.mounted
    /\ qh.fetches < MaxFetches
    /\ PaginationShown
    /\ qh.page # 1
    /\ qh' = fetchQuizzes([qh EXCEPT !.page = Max(1, @ - 1)])
    /\ UNCHANGED <<pipeVars, dq, gr, tc, qd, qg, api>>

\* Next: setPage(p => Math.min(totalPages, p + 1)), disabled={page === totalPages}
NextPage ==
    /\ qh.mounted
    /\ qh.fetches < MaxFetches
    /\ PaginationShown
    /\ qh.page # totalPages
    /\ qh' = fetchQuizzes([qh EXCEPT !.page = Min(totalPages, @ + 1)])
    /\ UNCHANGED <<pipeVars, dq, gr, tc, qd, qg, api>>

\* a history request resolves: setQuizzes, setTotal, finally setLoading(false)
HistoryResolved(req) ==
    /\ req \in qh.pending
    /\ \E count \in Totals :
         qh' = [qh EXCEPT !.quizzes = HistoryData(req, count).quizzes,
                          !.total = HistoryData(req, count).total,
                          !.loading = FALSE,
                          !.pending = @ \ {req}]
    /\ UNCHANGED <<pipeVars, dq, gr, tc, qd, qg, api>>

\* a history request rejects: setError, finally setLoading(false)
HistoryRejected(req) ==
    /\ req \in qh.pending
    /\ \E err \in ThrownErrors :
         qh' = [qh EXCEPT !.error = MessageOr(err, "Failed to fetch quiz history"),
                          !.loading = FALSE,
                          !.pending = @ \ {req}]
    /\ UNCHANGED <<pipeVars, dq, gr, tc, qd, qg, api>>

UiIdle == qg = QgIdle /\ qh = QhIdle /\ api = ApiIdle

\* ------------------------------------------------------------------------
\* Specifications
\* ------------------------------------------------------------------------
Idle ==
    /\ run = [r \in Reqs |-> RunIdle]
    /\ store = EmptyRows
    /\ nextId = 1

\* one request, any URL and count, any behaviour of the collaborators
Init ==
    /\ Idle
    /\ scenario = [clients |-> {1}, urls |-> UrlPool,
                   counts |-> MinQuestions..MaxQuestions,
                   words |-> WordCounts, llm |-> "any"]
    /\ dq = DqIdle
    /\ gr = GrIdle
    /\ tc = TcIdle
    /\ qd = QdIdle
    /\ UiIdle

\* concurrent requests for URLs with one normal form; the LLM answers every
\* prompt with a well-formed response
InitConc ==
    /\ Idle
    /\ scenario = [clients |-> Reqs, urls |-> GoodUrls, counts |-> {MinQuestions},
                   words |-> {2000}, llm |-> "reliable"]
    /\ dq = DqIdle
    /\ gr = GrIdle
    /\ tc = TcIdle
    /\ qd = QdIdle
    /\ UiIdle

\* one request for the smallest count, any URL, any behaviour of the
\* collaborators
LiveClients == {CHOOSE r \in Reqs : \A o \in Reqs : r <= o}
InitLive ==
    /\ Idle
    /\ scenario = [clients |-> LiveClients, urls |-> UrlPool, counts |-> {MinQuestions},
                   words |-> WordCounts, llm |-> "any"]
    /\ dq = DqIdle
    /\ gr = GrIdle
    /\ tc = TcIdle
    /\ qd = QdIdle
    /\ UiIdle

NoClients == [clients |-> {}, urls |-> {}, counts |-> {}, words |-> {}, llm |-> "any"]

InitDedup ==
    /\ Idle
    /\ scenario = NoClients
    /\ dq \in {[DqIdle EXCEPT !.phase = "input", !.questions = l] : l \in DedupInputs}
    /\ gr = GrIdle
    /\ tc = TcIdle
    /\ qd = QdIdle
    /\ UiIdle

InitGround ==
    /\ Idle
    /\ scenario = NoClients
    /\ dq = DqIdle
    /\ gr \in {[GrIdle EXCEPT !.phase = "input", !.question = Question(1, q),
                              !.article_text = a] : q \in GroundTexts, a \in GroundTexts}
    /\ tc = TcIdle
    /\ qd = QdIdle
    /\ UiIdle

InitTrunc ==
    /\ Idle
    /\ scenario = NoClients
    /\ dq = DqIdle
    /\ gr = GrIdle
    /\ tc \in {[TcIdle EXCEPT !.phase = "input", !.article = a, !.budget = b] :
                  a \in Articles, b \in Budgets}
    /\ qd = QdIdle
    /\ UiIdle

InitDisplay ==
    /\ Idle
    /\ scenario = NoClients
    /\ dq = DqIdle
    /\ gr = GrIdle
    /\ tc = TcIdle
    /\ qd \in {[QdIdle EXCEPT !.phase = "input", !.question = q] : q \in DisplayQuestions}
    /\ UiIdle

\* the App as first rendered, on the generator tab, no component of the
\* history tab mounted yet
InitUi ==
    /\ Idle
    /\ scenario = NoClients
    /\ dq = DqIdle
    /\ gr = GrIdle
    /\ tc = TcIdle
    /\ qd = QdIdle
    /\ UiIdle

InitApi ==
    /\ Idle
    /\ scenario = NoClients
    /\ dq = DqIdle
    /\ gr = GrIdle
    /\ tc = TcIdle
    /\ qd = QdIdle
    /\ qg = QgIdle
    /\ qh = QhIdle
    /\ api \in {[ApiIdle EXCEPT !.phase = "input", !.call = c, !.outcome = o] :
                   c \in ApiCalls, o \in AxiosOutcomes}

Next ==
    \E r \in Reqs :
        \/ Generate(r)
        \/ ValidateUrl(r)
        \/ CheckDuplicate(r)
        \/ Scrape(r)
        \/ CheckMinWords(r)
        \/ CallLLM(r)
        \/ InsertQuiz(r)
        \/ BatchInsert(r)
        \/ Commit(r)
        \/ Rollback(r)

NextDedup == Suppress \/ SuppressAgain

NextGround == Ground

NextTrunc == Truncate

NextDisplay == Render

NextGen ==
    \/ SetUrl
    \/ SetNumQuestions
    \/ handleSubmit
    \/ \E req \in qg.inflight : GenerateResolved(req) \/ GenerateRejected(req)
    \/ \E tab \in {"generator", "history"} : SetActiveTab(tab)
    \/ handleSelectQuiz

NextHist ==
    \/ MountHistory
    \/ handleSearchChange
    \/ Previous
    \/ NextPage
    \/ \E req \in qh.pending : HistoryResolved(req) \/ HistoryRejected(req)

NextApi == CallApi

Spec == Init /\ [][Next]_vars
SpecConc == InitConc /\ [][Next]_vars
SpecDedup == InitDedup /\ [][NextDedup]_vars
SpecGround == InitGround /\ [][NextGround]_vars
SpecTrunc == InitTrunc /\ [][NextTrunc]_vars
SpecDisplay == InitDisplay /\ [][NextDisplay]_vars
SpecGen == InitUi /\ [][NextGen]_vars
SpecHist == InitUi /\ [][NextHist]_vars
SpecApi == InitApi /\ [][NextApi]_vars

\* the server runs the handler of every request it accepted, and every call
\* of a collaborator returns, with a value, an exception or a timeout
HandlerStep(r) ==
    \/ ValidateUrl(r)
    \/ CheckDuplicate(r)
    \/ Scrape(r)
    \/ CheckMinWords(r)
    \/ CallLLM(r)
    \/ InsertQuiz(r)
    \/ BatchInsert(r)
    \/ Commit(r)
    \/ Rollback(r)
Fairness == \A r \in LiveClients : WF_vars(HandlerStep(r))
SpecLive == InitLive /\ [][Next]_vars /\ Fairness

\* ------------------------------------------------------------------------
\* Properties
\* ------------------------------------------------------------------------
Done(r) == run[r].pc = "done"
Succeeded(r) == Done(r) /\ run[r].resp.kind = "quiz"
AnswerIndex(letter) ==
    CASE letter = "A" -> 1 [] letter = "B" -> 2 [] letter = "C" -> 3 [] letter = "D" -> 4

\* C1: the store holds at most one persisted bundle for each normalized URL,
\* after any sequence of generate requests, sequential or interleaved.
C1_OneBundlePerUrl ==
    \A a, b \in store.quizzes :
        NormalizedUrl(a.url) = NormalizedUrl(b.url) => a = b

\* C2: of two generate requests for the same normalized URL, only one creates
\* a bundle; the other ends with an error or with the bundle of the first.
C2_SecondWriterFails ==
    \A r1, r2 \in Reqs :
        (/\ r1 # r2
         /\ Succeeded(r1) /\ Succeeded(r2)
         /\ NormalizedUrl(run[r1].url) = NormalizedUrl(run[r2].url))
        => run[r1].resp.id = run[r2].resp.id

\* C3: save_quiz_to_db is all-or-nothing.  In every state the committed rows
\* of a bundle are the parent row with all of its entity, question and topic
\* rows, or none of them; and a step of the write other than the commit, a
\* failing one included, leaves the committed rows as they were.
Owner(id) == CHOOSE r \in Reqs : run[r].quiz_id = id
WholeOrAbsent(id) ==
    IF \E q \in store.quizzes : q.id = id
    THEN /\ {q \in store.quizzes : q.id = id} = {QuizRow(id, run[Owner(id)].url)}
         /\ RowsOf(store.key_entities, id) = EntityRows(id, run[Owner(id)].entities)
         /\ RowsOf(store.questions, id) = QuestionRows(id, run[Owner(id)].questions)
         /\ RowsOf(store.related_topics, id) = TopicRows(id, run[Owner(id)].topics)
    ELSE /\ RowsOf(store.key_entities, id) = {}
         /\ RowsOf(store.questions, id) = {}
         /\ RowsOf(store.related_topics, id) = {}
StoreWhole ==
    /\ \A id \in 1..(nextId - 1) : WholeOrAbsent(id)
    /\ \A r \in Reqs :
           run[r].resp.code = "DB_CONNECTION_ERROR" /\ run[r].quiz_id # 0
           => ~\E q \in store.quizzes : q.id = run[r].quiz_id
OnlyCommitWrites ==
    \A r \in Reqs :
        (/\ run[r].pc \in SavePcs
         /\ run'[r] # run[r]
         /\ ~(run[r].pc = "commit" /\ run'[r].resp.kind = "quiz"))
        => store' = store
C3_AllOrNothing == []StoreWhole /\ [][OnlyCommitWrites]_vars

\* a write rolled back after its rows were inserted, next to a committed
\* bundle with question rows
C3_Witness ==
    \E r1, r2 \in Reqs :
        /\ run[r1].resp.code = "DB_CONNECTION_ERROR" /\ run[r1].quiz_id # 0
        /\ Succeeded(r2)
        /\ RowsOf(store.questions, run[r2].quiz_id) # {}

\* C4: a stage calls the LLM at most 3 times in a run; a failed attempt is
\* followed by an attempt with the same inputs; the stage raises only after
\* the 3rd attempt failed, and the request then ends with the generation
\* error of that stage; a stage that returns hands on the parsed data of an
\* accepted response, never a substitute.
StageValue(r, stage) ==
    CASE stage = "entities" -> [entities |-> run[r].entities]
      [] stage = "topics" -> [topics |-> run[r].topics]
      [] stage = "quiz" -> run[r].result
StageInv ==
    \A r \in Reqs, stage \in Stages :
        /\ run[r].calls[stage] <= MaxAttempts
        /\ run[r].outcome[stage] = "raised"
           => /\ run[r].calls[stage] = MaxAttempts
              /\ ~Accepts(stage, run[r].stage_raw[stage])
              /\ Done(r)
              /\ run[r].resp.kind = "error"
              /\ run[r].resp.code = "LLM_GENERATION_FAILED"
              /\ run[r].resp.stage = stage
        /\ run[r].outcome[stage] = "returned"
           => /\ Accepts(stage, run[r].stage_raw[stage])
              /\ StageValue(r, stage) = run[r].stage_raw[stage].data
RetrySameInputs ==
    \A r \in Reqs :
        (/\ run[r].pc \in Stages
         /\ run[r].attempt > 0
         /\ run'[r].calls[run[r].pc] = run[r].calls[run[r].pc] + 1)
        => run'[r].llm_in = run[r].llm_in
C4_BoundedRetry == []StageInv /\ [][RetrySameInputs]_vars

\* the entity stage returned at its 2nd attempt and the quiz stage raised
\* after its 3rd
C4_Witness ==
    \E r \in Reqs :
        /\ run[r].outcome["entities"] = "returned" /\ run[r].calls["entities"] = 2
        /\ run[r].outcome["quiz"] = "raised" /\ run[r].calls["quiz"] = MaxAttempts

\* C5: when generate_quiz fails on all 3 attempts the request ends with the
\* generation error of the quiz stage, returns no bundle, and has written
\* no row, pending or committed.
C5_QuizFailureFatal ==
    \A r \in Reqs :
        run[r].outcome["quiz"] = "raised"
        => /\ Done(r)
           /\ run[r].resp.kind = "error"
           /\ run[r].resp.stage = "quiz"
           /\ run[r].resp.questions = <<>>
           /\ run[r].quiz_id = 0
           /\ run[r].tx = EmptyRows
           /\ ~\E q \in store.quizzes : q.url = run[r].url

\* the quiz stage failed three times on responses that do not validate
C5_Witness ==
    \E r \in Reqs :
        /\ run[r].outcome["quiz"] = "raised"
        /\ run[r].stage_raw["quiz"].json
        /\ Done(r)

\* C6: a run that ends successfully for a requested count n returns and
\* persists between 1 and n questions.
C6_QuestionCount ==
    \A r \in Reqs :
        Succeeded(r) /\ run[r].quiz_id # 0
        => /\ Len(run[r].resp.questions) >= 1
           /\ Len(run[r].resp.questions) <= run[r].n
           /\ Cardinality(RowsOf(store.questions, run[r].quiz_id))
                  = Len(run[r].resp.questions)

\* C7: every question of a returned bundle has exactly 4 pairwise distinct
\* options, and its answer letter names a non-empty one of them.
QuestionSound(q) ==
    /\ Len(q.options) = NumOptions
    /\ \A i, j \in 1..Len(q.options) : i # j => q.options[i] # q.options[j]
    /\ q.answer \in Answers
    /\ q.options[AnswerIndex(q.answer)] # <<>>
C7_OptionsSound ==
    \A r \in Reqs :
        Succeeded(r)
        => \A i \in 1..Len(run[r].resp.questions) : QuestionSound(run[r].resp.questions[i])

\* C8: duplicate-question suppression is idempotent: applied to the list it
\* returned, it returns that list again.
C8_Idempotent == dq.phase = "twice" => dq.twice = dq.once

\* C9: in duplicate-question suppression the question removed is the later
\* one of a matching pair: every removed question matches an earlier
\* question that survives, the first question survives, and the survivors
\* keep their order.
Kept == {dq.once.questions[k].id : k \in 1..Len(dq.once.questions)}
C9_LaterIndexDropped ==
    (dq.phase \in {"once", "twice"} /\ ~dq.once.raised)
    => /\ \A j \in 1..Len(dq.questions) :
              j \notin Kept
              => \E i \in Kept : i < j /\ Similar(dq.questions[i].question,
                                                  dq.questions[j].question)
       /\ dq.questions # <<>> => 1 \in Kept
       /\ \A k \in 1..(Len(dq.once.questions) - 1) :
              dq.once.questions[k].id < dq.once.questions[k + 1].id

\* C10: the grounding check never raises, leaves the question as it was, and
\* logs a warning only when less than half of the question's terms occur in
\* the article.
GroundedTerms ==
    SelectSeq(extract_key_terms(gr.question.question),
              LAMBDA term : IsSubstring(Lower(term), Lower(gr.article_text)))
C10_GroundingNeverFatal ==
    gr.phase = "done"
    => /\ ~gr.result.raised
       /\ gr.result.ret
       /\ gr.after = gr.question
       /\ gr.result.warned
          => 2 * Len(GroundedTerms) < Len(extract_key_terms(gr.question.question))

\* C11: a failure of the entity stage does not abort the request: the
\* request does not end with the error of that stage, the entity set of the
\* run is empty, and a bundle that is returned carries no entities.
C11_EntityFailureDegrades ==
    \A r \in Reqs :
        run[r].outcome["entities"] = "raised"
        => /\ ~(run[r].resp.kind = "error" /\ run[r].resp.stage = "entities")
           /\ run[r].entities = <<>>
           /\ Succeeded(r) => run[r].resp.entities = <<>>

\* C12: the related-topics stage of a run does not start until the entity
\* stage of that run has completed, by returning or by raising.
C12_TopicsAfterEntities ==
    \A r \in Reqs :
        run[r].pc = "topics" \/ run[r].calls["topics"] > 0
        => /\ run[r].outcome["entities"] # "pending"
           /\ run[r].calls["entities"] > 0

\* the related-topics stage was called after the entity stage returned at
\* its last attempt
C12_Witness ==
    \E r \in Reqs :
        /\ run[r].calls["topics"] > 0
        /\ run[r].outcome["entities"] = "returned"
        /\ run[r].calls["entities"] = MaxAttempts

\* C13: the summary stage and the entity stage are started together, and
\* the quiz stage does not start until both have completed.
C13_QuizAfterSummaryAndEntities ==
    \A r \in Reqs :
        /\ (run[r].calls["summary"] > 0) = (run[r].calls["entities"] > 0)
        /\ run[r].pc = "quiz" \/ run[r].calls["quiz"] > 0
           => /\ run[r].outcome["summary"] # "pending"
              /\ run[r].outcome["entities"] # "pending"

\* C14: a generate request that finds a bundle persisted for its normalized
\* URL returns a stored bundle of that URL at once: no scraping, no LLM
\* call and no write follow.
Persisted(url) == {q \in store.quizzes : NormalizedUrl(q.url) = NormalizedUrl(url)}
ReturnsCached ==
    \A r \in Reqs :
        (/\ run[r].pc = "check_duplicate"
         /\ run'[r] # run[r]
         /\ Persisted(run[r].url) # {})
        => /\ run'[r].pc = "done"
           /\ run'[r].resp \in {get_quiz_by_id(q.id) : q \in Persisted(run[r].url)}
           /\ run'[r].calls = run[r].calls
           /\ store' = store
C14_CachedReturn == [][ReturnsCached]_vars

\* C15: a request whose article has fewer words than the documented minimum
\* ends with the content-too-short error: no generation stage is called and
\* no row is written, pending or committed.
DocumentedMinWords == 300
C15_ShortArticleRejected ==
    \A r \in Reqs :
        run[r].word_count \in 1..(DocumentedMinWords - 1)
        => /\ run[r].pc \in {"min_words", "done"}
           /\ \A st \in Prompts : run[r].calls[st] = 0
           /\ run[r].quiz_id = 0
           /\ run[r].tx = EmptyRows
           /\ Done(r) => /\ run[r].resp.kind = "error"
                         /\ run[r].resp.code = "CONTENT_TOO_SHORT"

\* a 250-word article was rejected
C15_Witness ==
    \E r \in Reqs :
        /\ Done(r)
        /\ run[r].word_count = 250
        /\ run[r].resp.code = "CONTENT_TOO_SHORT"

ValidOnes(questions) == SelectSeq(questions, QuestionValid)
C17_FinalAttemptRepairs ==
    \A r \in Reqs :
        LET raw == run[r].stage_raw["quiz"]
        IN  (/\ run[r].calls["quiz"] = MaxAttempts
             /\ run[r].outcome["quiz"] # "pending"
             /\ raw.json
             /\ "quiz" \in DOMAIN raw.data
             /\ ~validate_quiz_json(raw.data))
            => IF ValidOnes(raw.data.quiz) # <<>>
               THEN /\ run[r].outcome["quiz"] = "returned"
                    /\ run[r].result = [quiz |-> ValidOnes(raw.data.quiz)]
               ELSE run[r].outcome["quiz"] = "raised"

C19_Terminates ==
    \A r \in LiveClients :
        (run[r].pc # "idle") ~> (Done(r) /\ run[r].resp.kind \in {"quiz", "error"})

\* a request ended after every stage before the last returned and the last
\* stage failed at each of its attempts
C19_Witness ==
    \E r \in Reqs :
        /\ Done(r)
        /\ run[r].outcome["topics"] = "raised"
        /\ run[r].calls["topics"] = MaxAttempts

\* C20: QuizDisplay marks exactly one option of a question as correct, the
\* option whose letter is the answer letter of the question.
C20_MarksAnswerLetter ==
    qd.phase = "rendered"
    => \A i \in 1..Len(qd.rows) :
           qd.rows[i].isCorrect = (qd.rows[i].letter = qd.question.answer)

\* C21: every generate request the QuizGenerator sends carries num_questions
\* in the range 5..10, after any sequence of slider changes and submissions.
C21_NumQuestionsInRange ==
    \A req \in qg.inflight : req.num_questions \in MinQuestions..MaxQuestions

\* a later request carries the largest count, set with the slider
C21_Witness ==
    \E req \in qg.inflight : req.id > 1 /\ req.num_questions = MaxQuestions

\* C22: after duplicate-question suppression no two surviving questions are
\* similar above the threshold, and the suppression never raises IndexError.
C22_NoSimilarPairLeft ==
    dq.phase \in {"once", "twice"}
    => /\ ~dq.once.raised
       /\ \A i, j \in 1..Len(dq.once.questions) :
              i < j => ~Similar(dq.once.questions[i].question,
                                dq.once.questions[j].question)

\* C23: at most one generate request of the QuizGenerator is in flight at
\* any time.
C23_OneInFlight == Cardinality(qg.inflight) <= 1

\* C24: the loading flag of the QuizGenerator is true exactly while a
\* generate request is in flight.
C24_LoadingWhileInFlight == qg.loading = (qg.inflight # {})

\* C25: submitting the form with an empty or whitespace-only URL sets the
\* error 'Please enter a URL', sends no request, and leaves loading,
\* numQuestions and the displayed quiz unchanged.
Blank(text) == \A i \in 1..Len(text) : text[i] = 32
BlankSubmit ==
    handleSubmit /\ Blank(qg.url)
    => /\ qg'.error = "Please enter a URL"
       /\ qg'.inflight = qg.inflight
       /\ qg'.sent = qg.sent
       /\ qg'.loading = qg.loading
       /\ qg'.numQuestions = qg.numQuestions
       /\ qg'.currentQuiz = qg.currentQuiz
C25_BlankUrlRejected == [][BlankSubmit]_vars

\* a whitespace-only URL was submitted while a generated quiz is displayed
C25_Witness ==
    /\ qg.error = "Please enter a URL"
    /\ qg.url # <<>>
    /\ qg.currentQuiz.source = "generated"

\* C26: a generate request that fails sets an error message and leaves the
\* URL field and the displayed quiz unchanged; one that succeeds makes the
\* returned quiz the displayed quiz, clears the URL field and shows no error.
SettleEffects ==
    \A req \in qg.inflight :
        /\ GenerateRejected(req)
           => /\ qg'.error # "null"
              /\ qg'.url = qg.url
              /\ qg'.currentQuiz = qg.currentQuiz
        /\ GenerateResolved(req)
           => /\ qg'.currentQuiz = GeneratedQuiz(req)
              /\ qg'.url = <<>>
              /\ qg'.error = "null"
C26_SettleEffects == [][SettleEffects]_vars

\* C27: the loading flag of the QuizHistory is true whenever at least one
\* history request is in flight.
C27_LoadingWhilePending == qh.pending # {} => qh.loading

\* C28: the page of the QuizHistory is at least 1 and at most
\* max(1, totalPages), totalPages being ceil(total / 20).
C28_PageInRange == qh.page >= 1 /\ qh.page <= Max(1, totalPages)

\* C29: once all history requests have settled, the last of them with
\* success, the displayed rows are those of the current page and search.
C29_LatestResponseShown ==
    qh.mounted /\ qh.pending = {} /\ qh.error = "null"
    => /\ qh.quizzes.page = qh.page
       /\ qh.quizzes.search = qh.search

\* C30: a quizAPI function returns the body of a successful response; on a
\* failure it throws, the error payload of the response when the response
\* carries one and the error of axios otherwise, and it never returns.
CarriesPayload(error) == error.response /\ error.data /\ error.error.truthy
C30_ReturnsOrThrows ==
    api.phase = "settled"
    => IF api.outcome.ok
       THEN /\ api.result.kind = "returned"
            /\ api.result.data = api.outcome.data
       ELSE /\ api.result.kind = "thrown"
            /\ IF CarriesPayload(api.outcome.error)
               THEN /\ api.result.payload = api.outcome.error.error
                    /\ api.result.error = NoAxiosError
               ELSE /\ api.result.error = api.outcome.error
                    /\ api.result.payload = NoPayload

\* getQuizHistory threw the error payload of the response
C30_Witness ==
    /\ api.phase = "settled"
    /\ api.call.fn = "getQuizHistory"
    /\ ~api.outcome.ok
    /\ api.result.kind = "thrown"
    /\ api.result.payload.truthy

====
